---- MODULE Spec2Model ----
(***************************************************************************)
(* A model of the urlenc codec (src/urlenc.go): the reflective schema      *)
(* construction with its process-wide cache, the scalar converters, the    *)
(* encoder (Marshal) and the decoder (Unmarshal).                          *)
(*                                                                         *)
(* Texts are sequences of one-character strings, so that number formatting *)
(* and parsing are computed digit by digit.  A query string is the ordered *)
(* sequence of its key=value pairs: the tokenizer of net/url (splitting on *)
(* & and =, percent escapes) is a library outside the repository; what the *)
(* codec relies on is modelled: Encode emits the keys in sorted order with *)
(* each key's values in insertion order, ParseQuery groups the values of a *)
(* key in the order they occur, and a malformed text is a parse error.     *)
(***************************************************************************)
EXTENDS Integers, Sequences, FiniteSets, TLC

VARIABLES
    types,      \* t2f.types: the schema cache, record type -> cache entry
    call,       \* the last completed Marshal/Unmarshal call: inputs and results
    pc,         \* per goroutine: position inside getStructFields
    own,        \* per goroutine: the state of its copy of t2f.lock (value receiver)
    km,         \* per goroutine: the schema it has built (local km)
    arg,        \* per goroutine: the record type its call works on
    ret,        \* per goroutine: what its last call of getStructFields returned
    mapbusy     \* goroutines that are inside a write of the map t2f.types

vars == <<types, call, pc, own, km, arg, ret, mapbusy>>

(***************************************************************************)
(* Bounds of the model.                                                    *)
(***************************************************************************)
\* longest list held by a list-shaped field of an input record
MaxList == 2
\* largest number of key=value pairs in a hand-written input text
MaxPairs == 2
\* number of goroutines calling into the codec concurrently, minus one
MaxProc == 1
\* number of distinct record types whose schema one run builds and caches
MaxTypes == 1

(***************************************************************************)
(* Types (reflect.Type).  A type is a base type under dims levels of       *)
(* slice; NilType is the nil reflect.Type.                                 *)
(***************************************************************************)
T(base) == [dims |-> 0, base |-> base]

SliceOf(t) == [dims |-> t.dims + 1, base |-> t.base]

Elem(t) == [dims |-> t.dims - 1, base |-> t.base]

NilType == [dims |-> 0, base |-> "nil"]

\* the struct types that occur as field types
StructBases == {"MaybeString", "MaybeStringSlice", "Inner"}

Kind(t) ==
    IF t.dims > 0 THEN "slice"
    ELSE IF t.base \in StructBases THEN "struct"
    ELSE t.base

isStringOrNumeric(rk) ==
    \/ rk = "string"
    \/ rk \in {"int", "int8", "int16", "int32", "int64",
               "uint", "uint8", "uint16", "uint32", "uint64",
               "float32", "float64"}

RECURSIVE isSupportedType(_, _)
isSupportedType(rt, recurse) ==
    IF Kind(rt) \in {"slice", "array"}
    THEN IF ~recurse THEN FALSE
         ELSE IF ~isSupportedType(Elem(rt), FALSE) THEN FALSE
         ELSE TRUE
    ELSE isStringOrNumeric(Kind(rt))

\* the keys of _nameToType
NameTable ==
    {"string", "int", "int8", "int16", "int32", "int64",
     "uint", "uint8", "uint16", "uint32", "uint64", "float32", "float64"}

\* A type name of a struct tag is word under dims prefixes "[]".
TypeName(dims, word) == [dims |-> dims, word |-> word]

RECURSIVE nameToType(_, _)
nameToType(s, recurse) ==
    IF s.dims > 0
    THEN LET sliceOf(t) == IF t = NilType THEN NilType ELSE SliceOf(t)
         IN  sliceOf(nameToType(TypeName(s.dims - 1, s.word), FALSE))
    ELSE IF s.word \in NameTable THEN T(s.word)
    ELSE NilType

(***************************************************************************)
(* Scalar conversion.                                                      *)
(***************************************************************************)
Digits == <<"0", "1", "2", "3", "4", "5", "6", "7", "8", "9">>

DigitSet == {Digits[i] : i \in 1..10}

DigitVal(c) == (CHOOSE i \in 1..10 : Digits[i] = c) - 1

RECURSIVE Pow2(_)
Pow2(n) == IF n = 0 THEN 1 ELSE 2 * Pow2(n - 1)

\* strconv.FormatUint(n, 10)
RECURSIVE FormatUint(_)
FormatUint(n) ==
    IF n < 10 THEN <<Digits[n + 1]>>
    ELSE Append(FormatUint(n \div 10), Digits[(n % 10) + 1])

\* strconv.FormatInt(n, 10)
FormatInt(n) == IF n < 0 THEN <<"-">> \o FormatUint(-n) ELSE FormatUint(n)

RECURSIVE DigitsValue(_, _)
DigitsValue(s, acc) ==
    IF s = <<>> THEN acc ELSE DigitsValue(Tail(s), 10 * acc + DigitVal(Head(s)))

AllDigits(s) == s # <<>> /\ \A i \in 1..Len(s) : s[i] \in DigitSet

\* An error value: its message, and the field and type the message names.
Err(msg, field, type) == [msg |-> msg, field |-> field, type |-> type]

NoErr == Err("", "", NilType)

\* Whether magnitude n exceeds limit 2^e - d.  The texts of the model have far
\* fewer than ten digits, so a limit of 2^31 or more is never exceeded.
Exceeds(n, e, d) == IF e > 16 THEN FALSE ELSE n > Pow2(e) - d

\* strconv.ParseUint(v, 10, bits)
ParseUint(v, bits) ==
    IF ~AllDigits(v) THEN [err |-> Err("strconv: invalid syntax", "", NilType), n |-> 0]
    ELSE LET ranged(n) ==
                 IF Exceeds(n, bits, 1)
                 THEN [err |-> Err("strconv: value out of range", "", NilType), n |-> 0]
                 ELSE [err |-> NoErr, n |-> n]
         IN  ranged(DigitsValue(v, 0))

\* strconv.ParseInt(v, 10, bits)
ParseInt(v, bits) ==
    LET signed == v # <<>> /\ Head(v) \in {"+", "-"}
        neg    == v # <<>> /\ Head(v) = "-"
        body   == IF signed THEN Tail(v) ELSE v
    IN  IF ~AllDigits(body) THEN [err |-> Err("strconv: invalid syntax", "", NilType), n |-> 0]
        ELSE LET ranged(n) ==
                     IF (~neg /\ Exceeds(n, bits - 1, 1)) \/ (neg /\ Exceeds(n, bits - 1, 0))
                     THEN [err |-> Err("strconv: value out of range", "", NilType), n |-> 0]
                     ELSE [err |-> NoErr, n |-> IF neg THEN -n ELSE n]
             IN  ranged(DigitsValue(body, 0))

(***************************************************************************)
(* Values (reflect.Value).  Every value carries its kind k.                *)
(***************************************************************************)
StrV(s) == [k |-> "string", s |-> s]

IntV(kind, n) == [k |-> kind, n |-> n]

BoolV(b) == [k |-> "bool", b |-> b]

\* a slice of element type et: nil, or the elements it holds
SliceV(et, isnil, elems) == [k |-> "slice", et |-> et, isnil |-> isnil, elems |-> elems]

NilSlice(et) == SliceV(et, TRUE, <<>>)

MaybeStringV(valid, s) == [k |-> "MaybeString", Valid |-> valid, String |-> s]

MaybeStringSliceV(valid, sl) == [k |-> "MaybeStringSlice", Valid |-> valid, Slice |-> sl]

InnerV == [k |-> "Inner"]

\* reflect.Value.Kind()
ValueKind(v) == IF v.k \in StructBases THEN "struct" ELSE v.k

\* reflect.Value.Type()
ValueType(v) == IF v.k = "slice" THEN SliceOf(v.et) ELSE T(v.k)

\* reflect.Zero(t)
Zero(t) ==
    IF t.dims > 0 THEN NilSlice(Elem(t))
    ELSE CASE t.base = "string" -> StrV(<<>>)
           [] t.base = "bool" -> BoolV(FALSE)
           [] t.base = "MaybeString" -> MaybeStringV(FALSE, <<>>)
           [] t.base = "MaybeStringSlice" -> MaybeStringSliceV(FALSE, NilSlice(T("string")))
           [] t.base = "Inner" -> InnerV
           [] OTHER -> IntV(t.base, 0)

\* the result of a conversion: the error, or the value
Conv(err, v) == [err |-> err, v |-> v]

\* convertToString that formats every integer with FormatUint, dropping the
\* sign of a negative one
convertToStringUnsigned(rv) ==
    CASE ValueKind(rv) = "string" -> Conv(NoErr, rv.s)
      [] ValueKind(rv) \in {"int", "int8", "int16", "int32", "int64",
                            "uint", "uint8", "uint16", "uint32", "uint64"} ->
            Conv(NoErr, FormatUint(IF rv.n < 0 THEN 0 - rv.n ELSE rv.n))
      [] OTHER -> Conv(Err("urlenc: unsupported type to convert", "", ValueType(rv)), <<>>)

convertToString(rv) ==
    CASE ValueKind(rv) = "string" -> Conv(NoErr, rv.s)
      [] ValueKind(rv) \in {"int", "int8", "int16", "int32", "int64"} ->
            Conv(NoErr, FormatInt(rv.n))
      [] ValueKind(rv) \in {"uint", "uint8", "uint16", "uint32", "uint64"} ->
            Conv(NoErr, FormatUint(rv.n))
      [] OTHER -> Conv(Err("urlenc: unsupported type to convert", "", ValueType(rv)), <<>>)

IntBits(k) ==
    CASE k \in {"int", "int64", "uint", "uint64"} -> 64
      [] k \in {"int8", "uint8"} -> 8
      [] k \in {"int16", "uint16"} -> 16
      [] k \in {"int32", "uint32"} -> 32

convertFromString(k, v) ==
    CASE k = "string" -> Conv(NoErr, StrV(v))
      [] k \in {"int", "int8", "int16", "int32", "int64"} ->
            LET value(r) ==
                    IF r.err # NoErr THEN Conv(r.err, StrV(<<>>)) ELSE Conv(NoErr, IntV(k, r.n))
            IN  value(ParseInt(v, IntBits(k)))
      [] k \in {"uint", "uint8", "uint16", "uint32", "uint64"} ->
            LET value(r) ==
                    IF r.err # NoErr THEN Conv(r.err, StrV(<<>>)) ELSE Conv(NoErr, IntV(k, r.n))
            IN  value(ParseUint(v, IntBits(k)))
      [] OTHER -> Conv(Err("unsupported type", "", NilType), StrV(<<>>))

(***************************************************************************)
(* Struct tags.  A tag is the sequence of its key:"value" entries; a value *)
(* is the sequence of its comma-separated segments, and a segment is its   *)
(* text (core) with or without white space around it (pad).  The segment   *)
(* that names a type holds a TypeName.  The value "" is the one segment    *)
(* with the empty text.                                                    *)
(***************************************************************************)
Seg(core) == [pad |-> FALSE, core |-> core]

PadSeg(core) == [pad |-> TRUE, core |-> core]

\* strings.TrimSpace
TrimSpace(seg) == seg.core

TagEntry(key, val) == [key |-> key, val |-> val]

EmptyValue == <<Seg("")>>

\* st == s, for a text s without commas
ValueIs(st, s) == Len(st) = 1 /\ ~st[1].pad /\ st[1].core = s

\* the vocabulary the loop OUTER settles on: the first of urlenc, json that
\* some entry of the tag starts with, "" when there is none
FindTagName(tag) ==
    IF \E i \in 1..Len(tag) : tag[i].key = "urlenc" THEN "urlenc"
    ELSE IF \E i \in 1..Len(tag) : tag[i].key = "json" THEN "json"
    ELSE ""

\* reflect.StructTag.Get
TagGet(tag, name) ==
    IF name # "" /\ \E i \in 1..Len(tag) : tag[i].key = name
    THEN tag[CHOOSE i \in 1..Len(tag) :
                 tag[i].key = name /\ \A j \in 1..(i - 1) : tag[j].key # name].val
    ELSE EmptyValue

\* reflect.StructField
Field(name, pkgpath, tag, type) ==
    [Name |-> name, PkgPath |-> pkgpath, Tag |-> tag, Type |-> type]

\* structfield
StructField(fieldname, keyname, omitempty, type) ==
    [FieldName |-> fieldname, KeyName |-> keyname, OmitEmpty |-> omitempty, Type |-> type]

\* ParseTag that skips a field whose tag has neither urlenc nor json
ParseTagSkipForeign(f) ==
    IF f.Tag = <<>>
    THEN [skip |-> FALSE, keyname |-> f.Name, omitempty |-> FALSE, fieldtype |-> f.Type]
    ELSE LET parsed(st, parts) ==
                 IF ValueIs(st, "-") \/ FindTagName(f.Tag) = ""
                 THEN [skip |-> TRUE, keyname |-> "", omitempty |-> FALSE, fieldtype |-> f.Type]
                 ELSE [skip |-> FALSE,
                       keyname |-> TrimSpace(parts[1]),
                       omitempty |-> Len(parts) > 1 /\ TrimSpace(parts[2]) = "omitempty",
                       fieldtype |-> IF Len(parts) > 2
                                     THEN nameToType(TrimSpace(parts[3]), FALSE)
                                     ELSE f.Type]
             with(st) == parsed(st, st)
         IN  with(TagGet(f.Tag, FindTagName(f.Tag)))

\* what the tag of field f settles: whether the field is skipped, and its
\* keyname, omitempty and fieldtype
ParseTag(f) ==
    IF f.Tag = <<>>
    THEN [skip |-> FALSE, keyname |-> f.Name, omitempty |-> FALSE, fieldtype |-> f.Type]
    ELSE LET parsed(st, parts) ==
                 IF ValueIs(st, "-")
                 THEN [skip |-> TRUE, keyname |-> "", omitempty |-> FALSE, fieldtype |-> f.Type]
                 ELSE [skip |-> FALSE,
                       keyname |-> TrimSpace(parts[1]),
                       omitempty |-> Len(parts) > 1 /\ TrimSpace(parts[2]) = "omitempty",
                       fieldtype |-> IF Len(parts) > 2
                                     THEN nameToType(TrimSpace(parts[3]), FALSE)
                                     ELSE f.Type]
             with(st) == parsed(st, st)
         IN  with(TagGet(f.Tag, FindTagName(f.Tag)))

\* the outcome of a schema construction: status is "ok", "error" or "panic"
Built(status, fields, err) == [status |-> status, km |-> fields, err |-> err]

\* the loop over the fields of a struct type, from field i on
RECURSIVE BuildFields(_, _, _)
BuildFields(fs, i, acc) ==
    IF i > Len(fs) THEN Built("ok", acc, NoErr)
    ELSE LET field(f, p) ==
                 IF f.PkgPath # "" THEN BuildFields(fs, i + 1, acc)
                 ELSE IF p.skip THEN BuildFields(fs, i + 1, acc)
                 ELSE IF p.fieldtype = NilType
                      \* isSupportedType calls Kind() on the nil reflect.Type
                      THEN Built("panic", <<>>, Err("nil pointer dereference", f.Name, NilType))
                 ELSE IF ~isSupportedType(p.fieldtype, TRUE)
                      THEN Built("error", <<>>,
                                 Err("urlenc: unsupported type on struct field", f.Name, f.Type))
                 ELSE BuildFields(fs, i + 1,
                          Append(acc, StructField(f.Name, p.keyname, p.omitempty, p.fieldtype)))
         IN  field(fs[i], ParseTag(fs[i]))

(***************************************************************************)
(* The record types the model encodes and decodes.  Foo, ZeroInt, FooJ and *)
(* RackStylePayload are the types of src/urlenc_test.go (Foo without its   *)
(* float list Corge: floating-point values are not modelled); the others   *)
(* exercise the remaining branches of the schema construction.             *)
(***************************************************************************)
Urlenc(segs) == <<TagEntry("urlenc", segs)>>

StructNames ==
    {"Foo", "ZeroInt", "FooJ", "RackStylePayload", "Numbers", "Dup", "Wrapped",
     "Unwrapped", "Bare", "Legacy", "Bad", "Bogus", "Custom", "HalfCustom"}

\* the declared fields of a record type, in declaration order
StructFields(name) ==
    CASE name = "Foo" ->
           <<Field("Bar", "", Urlenc(<<Seg("bar")>>), T("string")),
             Field("Baz", "", Urlenc(<<Seg("baz")>>), T("int")),
             Field("Qux", "", Urlenc(<<Seg("qux")>>), SliceOf(T("string"))),
             Field("Grault", "", Urlenc(<<Seg("grault")>>), T("bool")),
             Field("Garply", "", Urlenc(<<Seg("garply")>>), SliceOf(T("bool"))),
             Field("Special", "",
                   Urlenc(<<Seg("special"), Seg("omitempty"), Seg(TypeName(0, "string"))>>),
                   T("MaybeString")),
             Field("SpecialSlice", "",
                   Urlenc(<<Seg("sslice"), Seg("omitempty"), Seg(TypeName(1, "string"))>>),
                   T("MaybeStringSlice"))>>
      [] name = "ZeroInt" ->
           <<Field("Limit", "", Urlenc(<<Seg("limit"), Seg("omitempty")>>), T("int"))>>
      [] name = "FooJ" ->
           <<Field("BarJ", "", <<TagEntry("json", <<Seg("bar")>>)>>, T("string"))>>
      [] name = "RackStylePayload" ->
           <<Field("Foo", "", Urlenc(<<Seg("foo")>>), T("string")),
             Field("Names", "", Urlenc(<<Seg("names[]")>>), SliceOf(T("string")))>>
      [] name = "Numbers" ->
           <<Field("N", "", Urlenc(<<Seg("n")>>), T("int8")),
             Field("L", "", Urlenc(<<Seg("l"), PadSeg("omitempty")>>), SliceOf(T("int8"))),
             Field("U", "", Urlenc(<<Seg("u"), Seg("omitempty")>>), T("uint8"))>>
      [] name = "Dup" ->
           <<Field("A", "", Urlenc(<<Seg("k")>>), T("string")),
             Field("B", "", Urlenc(<<Seg("k")>>), T("string"))>>
      [] name = "Wrapped" ->
           <<Field("Special", "",
                   Urlenc(<<Seg("special"), Seg("omitempty"), Seg(TypeName(0, "string"))>>),
                   T("MaybeString")),
             Field("Plain", "",
                   Urlenc(<<Seg("plain"), Seg(""), Seg(TypeName(0, "string"))>>),
                   T("MaybeString"))>>
      [] name = "Unwrapped" ->
           <<Field("Special", "",
                   Urlenc(<<Seg("special"), Seg("omitempty"), Seg(TypeName(0, "string"))>>),
                   T("string")),
             Field("Plain", "",
                   Urlenc(<<Seg("plain"), Seg(""), Seg(TypeName(0, "string"))>>),
                   T("string"))>>
      [] name = "Bare" ->
           <<Field("A", "", <<>>, T("string")),
             Field("B", "", Urlenc(EmptyValue), T("string")),
             Field("C", "", Urlenc(<<Seg(""), Seg("omitempty")>>), T("string"))>>
      [] name = "Legacy" ->
           <<Field("X", "", <<TagEntry("xml", <<Seg("x")>>)>>, T("string")),
             Field("hidden", "urlenc_test", Urlenc(<<Seg("hidden")>>), T("string")),
             Field("Skip", "", Urlenc(<<Seg("-")>>), T("string")),
             Field("Y", "", <<TagEntry("json", <<Seg("y")>>), TagEntry("urlenc", <<PadSeg("why")>>)>>,
                   T("string"))>>
      [] name = "Bad" ->
           <<Field("Ok", "", Urlenc(<<Seg("ok")>>), T("string")),
             Field("In", "", Urlenc(<<Seg("in")>>), T("Inner"))>>
      [] name = "Bogus" ->
           <<Field("P", "", Urlenc(<<Seg("p"), Seg(""), Seg(TypeName(0, "bogus"))>>),
                   T("string"))>>
      [] name = "Custom" ->
           <<Field("In", "", Urlenc(<<Seg("in")>>), T("Inner"))>>
      [] name = "HalfCustom" ->
           <<Field("Bar", "", Urlenc(<<Seg("bar")>>), T("string"))>>

\* the record types that implement Marshaler (MarshalURL)
Marshalers == {"Custom", "HalfCustom"}

\* the record types that implement Unmarshaler (UnmarshalURL)
Unmarshalers == {"Custom"}

\* the schema construction of a record type (the cache aside)
BuildSchema(name) == BuildFields(StructFields(name), 1, <<>>)

(***************************************************************************)
(* Query strings (net/url).  url.Values maps every key to the sequence of  *)
(* its values; a key that is absent has none.                              *)
(***************************************************************************)
\* every key of the model, in the byte order in which Encode sorts keys
SortedKeys ==
    <<"", "A", "B", "C", "X", "bar", "baz", "foo", "garply", "grault", "in", "k",
      "l", "limit", "n", "names[]", "ok", "p", "plain", "qux", "special", "sslice",
      "u", "why", "zz">>

KeySet == {SortedKeys[i] : i \in 1..Len(SortedKeys)}

\* url.Values{}
EmptyValues == [k \in KeySet |-> <<>>]

\* url.Values.Add
Add(uv, key, value) == [uv EXCEPT ![key] = Append(@, value)]

Pair(key, val) == [key |-> key, val |-> val]

\* a query string: malformed (bad), or the sequence of its pairs
Text(pairs) == [bad |-> FALSE, pairs |-> pairs]

Malformed == [bad |-> TRUE, pairs |-> <<>>]

\* the pairs of key k, one per value, in the order of the values
PairsOf(k, vals) == [i \in 1..Len(vals) |-> Pair(k, vals[i])]

\* url.Values.Encode, from the i-th sorted key on
RECURSIVE EncodeFrom(_, _)
EncodeFrom(uv, i) ==
    IF i > Len(SortedKeys) THEN <<>>
    ELSE PairsOf(SortedKeys[i], uv[SortedKeys[i]]) \o EncodeFrom(uv, i + 1)

\* []byte(uv.Encode())
Encode(uv) == Text(EncodeFrom(uv, 1))

\* the values of the multi-map after adding the pairs from the i-th on
RECURSIVE AddPairs(_, _, _)
AddPairs(uv, pairs, i) ==
    IF i > Len(pairs) THEN uv
    ELSE AddPairs(Add(uv, pairs[i].key, pairs[i].val), pairs, i + 1)

\* url.ParseQuery
ParseQuery(data) ==
    IF data.bad THEN [err |-> Err("invalid URL escape", "", NilType), q |-> EmptyValues]
    ELSE [err |-> NoErr, q |-> AddPairs(EmptyValues, data.pairs, 1)]

(***************************************************************************)
(* The extension hooks of the wrapper types of src/urlenc_test.go.         *)
(***************************************************************************)
\* getValuerMethod: whether the value's type implements Valuer
\* getValuerMethod that finds no Value method on any type
getValuerMethodNone(fv) == FALSE

getValuerMethod(fv) == fv.k \in {"MaybeString", "MaybeStringSlice"}

\* MaybeString.Value, MaybeStringSlice.Value
Value(fv) == IF fv.k = "MaybeString" THEN StrV(fv.String) ELSE fv.Slice

\* getSetterMethod: whether the (addressable) value's type implements Setter
getSetterMethod(fv) == fv.k \in {"MaybeString", "MaybeStringSlice"}

\* MaybeString.Set, MaybeStringSlice.Set: the error, and the receiver afterwards
Set(fv, v) ==
    IF fv.k = "MaybeString"
    THEN IF v.k = "string"
         THEN [err |-> NoErr, fv |-> MaybeStringV(TRUE, v.s)]
         ELSE [err |-> Err("expected string", "", ValueType(v)), fv |-> fv]
    ELSE IF v.k = "slice" /\ v.et = T("string")
         THEN [err |-> NoErr, fv |-> MaybeStringSliceV(TRUE, v)]
         ELSE [err |-> Err("expected string slice", "", ValueType(v)), fv |-> fv]

(***************************************************************************)
(* The encoder.                                                            *)
(***************************************************************************)
\* the outcome of a step of the encoder: status is "ok", "error" or "panic"
Enc(status, err, uv) == [status |-> status, err |-> err, uv |-> uv]

\* the loop of addValue over the elements of a list, from element i on
RECURSIVE addElems(_, _, _, _)
addElems(uv, name, elems, i) ==
    IF i > Len(elems) THEN Enc("ok", NoErr, uv)
    ELSE LET added(c) ==
                 IF c.err # NoErr THEN Enc("error", c.err, uv)
                 ELSE addElems(Add(uv, name, c.v), name, elems, i + 1)
         IN  added(convertToString(elems[i]))

addValue(uv, name, fv0, ft) ==
    LET added(c) ==
            IF c.err # NoErr THEN Enc("error", c.err, uv)
            ELSE Enc("ok", NoErr, Add(uv, name, c.v))
        add(fv) ==
            IF isStringOrNumeric(Kind(ft)) THEN added(convertToString(fv))
            ELSE IF fv.k # "slice"
                 \* reflect.Value.Len of a value that is no list
                 THEN Enc("panic", Err("reflect: call of reflect.Value.Len", "", ValueType(fv)),
                          uv)
                 ELSE addElems(uv, name, fv.elems, 1)
    IN  add(IF getValuerMethod(fv0) THEN Value(fv0) ELSE fv0)

\* the test for empty values of marshalStruct: whether the field is skipped
\* the omitempty check that only knows nil lists, and takes no scalar for empty
IsEmptyNilOnly(fv) == ValueKind(fv) = "slice" /\ fv.isnil

IsEmpty(fv) ==
    CASE ValueKind(fv) = "slice" -> fv.isnil
      [] ValueKind(fv) = "struct" -> fv = Zero(ValueType(fv))
      [] OTHER -> fv = Zero(ValueType(fv))

\* the loop of marshalStruct over the schema, from field i on
RECURSIVE marshalFields(_, _, _, _)
marshalFields(fields, i, rv, uv) ==
    IF i > Len(fields) THEN Enc("ok", NoErr, uv)
    ELSE LET added(r) ==
                 IF r.status # "ok" THEN r ELSE marshalFields(fields, i + 1, rv, r.uv)
             field(f, fv) ==
                 IF f.OmitEmpty /\ IsEmpty(fv) THEN marshalFields(fields, i + 1, rv, uv)
                 ELSE added(addValue(uv, f.KeyName, fv, f.Type))
         IN  field(fields[i], rv[fields[i].FieldName])

(***************************************************************************)
(* The decoder.                                                            *)
(***************************************************************************)
\* the outcome of a step of the decoder: status, error, and the target
Dec(status, err, rv) == [status |-> status, err |-> err, rv |-> rv]

\* the conversion of the values of a list-shaped field, from value i on
RECURSIVE convertElems(_, _, _, _)
convertElems(ek, values, i, acc) ==
    IF i > Len(values) THEN Conv(NoErr, acc)
    ELSE LET converted(c) ==
                 IF c.err # NoErr THEN Conv(c.err, acc)
                 ELSE convertElems(ek, values, i + 1, Append(acc, c.v))
         IN  converted(convertFromString(ek, values[i]))

\* valueToSet that converts values[0] only, also for a list
valueToSetFirst(ft, fieldname, values) ==
    IF Kind(ft) \in {"slice", "array"}
    THEN LET made(c) == Conv(c.err, SliceV(Elem(ft), FALSE, c.v))
         IN  made(convertElems(Kind(Elem(ft)), <<values[1]>>, 1, <<>>))
    ELSE IF ~isStringOrNumeric(Kind(ft))
         THEN Conv(Err("urlenc.Unmarshal: unsupported type for field", fieldname, ft),
                   StrV(<<>>))
         ELSE convertFromString(Kind(ft), values[1])

\* the value to be set (sv) for a field of registered type ft
valueToSet(ft, fieldname, values) ==
    IF Kind(ft) \in {"slice", "array"}
    THEN LET made(c) == Conv(c.err, SliceV(Elem(ft), FALSE, c.v))
         IN  made(convertElems(Kind(Elem(ft)), values, 1, <<>>))
    ELSE IF ~isStringOrNumeric(Kind(ft))
         THEN Conv(Err("urlenc.Unmarshal: unsupported type for field", fieldname, ft),
                   StrV(<<>>))
         ELSE convertFromString(Kind(ft), values[1])

\* the loop of unmarshalStruct that resets a field to its zero value when the
\* input has no value for its key
RECURSIVE unmarshalFieldsZeroing(_, _, _, _)
unmarshalFieldsZeroing(fields, i, q, rv) ==
    IF i > Len(fields) THEN Dec("ok", NoErr, rv)
    ELSE LET f == fields[i]
             injected(o) ==
                 IF o.err # NoErr THEN Dec("error", o.err, rv)
                 ELSE unmarshalFieldsZeroing(fields, i + 1, q,
                                             [rv EXCEPT ![f.FieldName] = o.fv])
             assign(fv, c) ==
                 IF c.err # NoErr THEN Dec("error", c.err, rv)
                 ELSE IF ~getSetterMethod(fv)
                 THEN IF ValueType(c.v) # ValueType(fv)
                      THEN Dec("panic", Err("reflect.Set: value not assignable",
                                            f.FieldName, ValueType(c.v)), rv)
                      ELSE unmarshalFieldsZeroing(fields, i + 1, q,
                                                  [rv EXCEPT ![f.FieldName] = c.v])
                 ELSE injected(Set(fv, c.v))
             field(values) ==
                 IF Len(values) <= 0
                 THEN unmarshalFieldsZeroing(fields, i + 1, q,
                          [rv EXCEPT ![f.FieldName] = Zero(ValueType(rv[f.FieldName]))])
                 ELSE assign(rv[f.FieldName], valueToSet(f.Type, f.FieldName, values))
         IN  field(q[f.KeyName])

\* the loop of unmarshalStruct over the schema, from field i on
RECURSIVE unmarshalFields(_, _, _, _)
unmarshalFields(fields, i, q, rv) ==
    IF i > Len(fields) THEN Dec("ok", NoErr, rv)
    ELSE LET f == fields[i]
             injected(o) ==
                 IF o.err # NoErr THEN Dec("error", o.err, rv)
                 ELSE unmarshalFields(fields, i + 1, q, [rv EXCEPT ![f.FieldName] = o.fv])
             assign(fv, c) ==
                 IF c.err # NoErr THEN Dec("error", c.err, rv)
                 ELSE IF ~getSetterMethod(fv)
                 THEN IF ValueType(c.v) # ValueType(fv)
                      \* reflect.Value.Set of a value the field cannot hold
                      THEN Dec("panic", Err("reflect.Set: value not assignable",
                                            f.FieldName, ValueType(c.v)), rv)
                      ELSE unmarshalFields(fields, i + 1, q, [rv EXCEPT ![f.FieldName] = c.v])
                 ELSE injected(Set(fv, c.v))
             field(values) ==
                 IF Len(values) <= 0 THEN unmarshalFields(fields, i + 1, q, rv)
                 ELSE assign(rv[f.FieldName], valueToSet(f.Type, f.FieldName, values))
         IN  field(q[f.KeyName])

(***************************************************************************)
(* The schema cache, and the calls of a single goroutine.                  *)
(***************************************************************************)
\* an entry of the map t2f.types: absent, or the schema stored
Entry(fields) == [present |-> TRUE, km |-> fields]

NoEntry == [present |-> FALSE, km |-> <<>>]

\* make(map[reflect.Type][]structfield)
EmptyCache == [t \in StructNames |-> NoEntry]

\* getStructFields run by one goroutine alone: what it returns, and the cache
\* it leaves
getStructFields(cache, t) ==
    IF cache[t].present
    THEN [status |-> "ok", km |-> cache[t].km, err |-> NoErr, types |-> cache]
    ELSE LET registered(b) ==
                 IF b.status # "ok"
                 THEN [status |-> b.status, km |-> b.km, err |-> b.err, types |-> cache]
                 ELSE [status |-> "ok", km |-> b.km, err |-> NoErr,
                       types |-> [cache EXCEPT ![t] = Entry(b.km)]]
         IN  registered(BuildSchema(t))

\* the outcome of a call: status, error, output text, target, and the cache
Out(status, err, out, rv, cache) ==
    [status |-> status, err |-> err, out |-> out, rv |-> rv, types |-> cache]

marshalStruct(cache, t, rv) ==
    LET encoded(g, r) ==
            IF r.status # "ok" THEN Out(r.status, r.err, Text(<<>>), rv, g.types)
            ELSE Out("ok", NoErr, Encode(r.uv), rv, g.types)
        with(g) ==
            IF g.status # "ok" THEN Out(g.status, g.err, Text(<<>>), rv, g.types)
            ELSE encoded(g, marshalFields(g.km, 1, rv, EmptyValues))
    IN  with(getStructFields(cache, t))

\* Marshal of a record of type t; hook is what MarshalURL returns when the
\* type implements Marshaler
\* Marshal without the test for Marshaler: every record goes through its schema
MarshalThroughSchema(cache, t, rv, hook) == marshalStruct(cache, t, rv)

Marshal(cache, t, rv, hook) ==
    IF t \in Marshalers
    THEN Out(IF hook.err = NoErr THEN "ok" ELSE "error", hook.err, hook.out, rv, cache)
    ELSE marshalStruct(cache, t, rv)

unmarshalStruct(cache, t, data, rv) ==
    LET decoded(g, r) == Out(r.status, r.err, Text(<<>>), r.rv, g.types)
        parsed(g, p) ==
            IF p.err # NoErr THEN Out("error", p.err, Text(<<>>), rv, g.types)
            ELSE decoded(g, unmarshalFields(g.km, 1, p.q, rv))
        with(g) ==
            IF g.status # "ok" THEN Out(g.status, g.err, Text(<<>>), rv, g.types)
            ELSE parsed(g, ParseQuery(data))
    IN  with(getStructFields(cache, t))

\* Unmarshal into a pointer to a record of type t; hook is what UnmarshalURL
\* returns when the type implements Unmarshaler
Unmarshal(cache, t, data, rv, hook) ==
    IF t \in Unmarshalers
    THEN Out(IF hook.err = NoErr THEN "ok" ELSE "error", hook.err, Text(<<>>), rv, cache)
    ELSE unmarshalStruct(cache, t, data, rv)

(***************************************************************************)
(* Decoding into a map[string]interface{}.  A map holds, for every key, an *)
(* entry that is absent or holds the value stored.                         *)
(***************************************************************************)
MapEntry(v) == [present |-> TRUE, v |-> v]

NoMapEntry == [present |-> FALSE, v |-> StrV(<<>>)]

\* the loop of unmarshalMap over the keys, from the i-th sorted key on (the
\* keys are distinct, so the order of the iteration does not matter)
\* the loop of unmarshalMap that stores the first value of every key, however
\* many values the key has
RECURSIVE unmarshalKeysFirst(_, _, _)
unmarshalKeysFirst(q, i, m) ==
    IF i > Len(SortedKeys) THEN m
    ELSE LET store(k, v) ==
                 IF v = <<>> THEN unmarshalKeysFirst(q, i + 1, m)
                 ELSE unmarshalKeysFirst(q, i + 1, [m EXCEPT ![k] = MapEntry(StrV(v[1]))])
         IN  store(SortedKeys[i], q[SortedKeys[i]])

RECURSIVE unmarshalKeys(_, _, _)
unmarshalKeys(q, i, m) ==
    IF i > Len(SortedKeys) THEN m
    ELSE LET store(k, v) ==
                 IF v = <<>> THEN unmarshalKeys(q, i + 1, m)
                 ELSE IF Len(v) = 1
                      THEN unmarshalKeys(q, i + 1, [m EXCEPT ![k] = MapEntry(StrV(v[1]))])
                      ELSE unmarshalKeys(q, i + 1,
                               [m EXCEPT ![k] = MapEntry(SliceV(T("string"), FALSE,
                                                       [j \in 1..Len(v) |-> StrV(v[j])]))])
         IN  store(SortedKeys[i], q[SortedKeys[i]])

unmarshalMap(data, m) ==
    LET stored(p) ==
            IF p.err # NoErr THEN Dec("error", p.err, m)
            ELSE Dec("ok", NoErr, unmarshalKeys(p.q, 1, m))
    IN  stored(ParseQuery(data))

(***************************************************************************)
(* The inputs of the calls: record values, targets and texts.              *)
(***************************************************************************)
\* the sequences over S of length at most n
SeqsUpTo(S, n) == UNION {[1..k -> S] : k \in 0..n}

StrDom == {<<>>, <<"a">>, <<"7">>}

TrueText == <<"t", "r", "u", "e">>

FalseText == <<"f", "a", "l", "s", "e">>

\* the values of a scalar or wrapper type that the inputs draw from
ScalarValues(t) ==
    CASE t.base = "string" -> {StrV(s) : s \in StrDom}
      [] t.base = "int" -> {IntV("int", n) : n \in {0, 2}}
      [] t.base = "int8" -> {IntV("int8", n) : n \in {-128, 0, 7}}
      [] t.base = "uint8" -> {IntV("uint8", n) : n \in {0, 255}}
      [] t.base = "bool" -> {BoolV(b) : b \in BOOLEAN}
      [] t.base = "MaybeString" ->
            {MaybeStringV(b, s) : b \in BOOLEAN, s \in {<<>>, <<"a">>}}
      [] t.base = "MaybeStringSlice" ->
            {MaybeStringSliceV(FALSE, NilSlice(T("string"))),
             MaybeStringSliceV(TRUE, SliceV(T("string"), FALSE, <<StrV(<<"a">>)>>))}
      [] t.base = "Inner" -> {InnerV}

\* the values that the elements of an input list draw from
ElemValues(t) ==
    CASE t.base = "string" -> {StrV(<<>>), StrV(<<"a">>)}
      [] t.base = "int8" -> {IntV("int8", -128), IntV("int8", 7)}
      [] OTHER -> ScalarValues(t)

\* the values of a field of type t: for a list the nil list and the lists,
\* the empty one included, of at most MaxList elements
FieldValues(t) ==
    IF t.dims > 0
    THEN {NilSlice(Elem(t))}
         \cup {SliceV(Elem(t), FALSE, es) : es \in SeqsUpTo(ElemValues(Elem(t)), MaxList)}
    ELSE ScalarValues(t)

FieldNames(name) == {StructFields(name)[i].Name : i \in 1..Len(StructFields(name))}

FieldType(name, fieldname) ==
    LET fs == StructFields(name)
    IN  fs[CHOOSE i \in 1..Len(fs) : fs[i].Name = fieldname].Type

\* the zero value of a record type
ZeroRecord(name) == [n \in FieldNames(name) |-> Zero(FieldType(name, n))]

\* a value of type t that is not the zero value
Dirty(t) ==
    IF t.dims > 0 THEN SliceV(Elem(t), FALSE, <<CHOOSE v \in ElemValues(Elem(t)) : TRUE>>)
    ELSE CHOOSE v \in ScalarValues(t) : v # Zero(t) \/ t.base = "Inner"

\* a record none of whose fields holds its zero value
DirtyRecord(name) == [n \in FieldNames(name) |-> Dirty(FieldType(name, n))]

\* the value that TestMarshal encodes
FooSample ==
    [Bar |-> StrV(<<"o", "n", "e">>),
     Baz |-> IntV("int", 2),
     Qux |-> SliceV(T("string"), FALSE, <<StrV(<<"t", "h", "r", "e", "e">>), StrV(<<"4">>)>>),
     Grault |-> BoolV(FALSE),
     Garply |-> NilSlice(T("bool")),
     Special |-> MaybeStringV(TRUE, <<"s", "p">>),
     SpecialSlice |-> MaybeStringSliceV(TRUE, SliceV(T("string"), FALSE, <<StrV(<<"6">>)>>))]

\* the record values of a type that Marshal is called with
RecordValuesOf(name) ==
    IF name = "Foo" THEN {ZeroRecord(name), DirtyRecord(name), FooSample}
    ELSE LET all == UNION {FieldValues(FieldType(name, n)) : n \in FieldNames(name)}
         IN  {g \in [FieldNames(name) -> all] :
                 \A n \in FieldNames(name) : g[n] \in FieldValues(FieldType(name, n))}

RecordValues == [name \in StructNames |-> RecordValuesOf(name)]

\* the targets that Unmarshal is called with
Targets(name) == {ZeroRecord(name), DirtyRecord(name)}

\* the keys that the input texts of a record type draw from
TextKeys(name) ==
    CASE name = "Foo" -> {"grault", "garply"}
      [] name = "ZeroInt" -> {"limit", "zz"}
      [] name = "FooJ" -> {"bar", "zz"}
      [] name = "RackStylePayload" -> {"foo", "names[]"}
      [] name = "Numbers" -> {"n", "l", "u"}
      [] name = "Dup" -> {"k"}
      [] name \in {"Wrapped", "Unwrapped"} -> {"special", "plain"}
      [] name = "Bare" -> {"", "A", "B", "C"}
      [] name = "Legacy" -> {"", "X", "why"}
      [] name = "Bad" -> {"ok", "in"}
      [] name = "Bogus" -> {"p"}
      [] name = "Custom" -> {"in"}
      [] name = "HalfCustom" -> {"bar"}

\* the values that the input texts of a record type draw from
TextVals(name) ==
    CASE name = "Foo" -> {TrueText, FalseText}
      [] name \in {"Numbers", "ZeroInt"} -> {<<"7">>, <<"1", "2", "8">>, <<"a">>}
      [] name \in {"Bare", "Legacy"} -> {<<"a">>, <<"7">>}
      [] OTHER -> StrDom

\* the text that TestUnmarshal decodes, cut down to the bool fields of Foo
FooText ==
    Text(<<Pair("grault", TrueText), Pair("garply", TrueText), Pair("garply", FalseText)>>)

\* the input texts of a record type: the malformed text, and the texts of at
\* most MaxPairs pairs
TextsOf(name) ==
    {Malformed}
    \cup {Text(ps) : ps \in SeqsUpTo({Pair(k, v) : k \in TextKeys(name), v \in TextVals(name)},
                                    MaxPairs)}
    \cup (IF name = "Foo" THEN {FooText} ELSE {})

Texts == [name \in StructNames |-> TextsOf(name)]

\* what MarshalURL may return
MarshalHooks ==
    {[err |-> NoErr, out |-> Text(<<Pair("zz", <<"a">>)>>)],
     [err |-> Err("custom", "", NilType), out |-> Text(<<>>)]}

\* what UnmarshalURL may return
UnmarshalHooks == {[err |-> NoErr], [err |-> Err("custom", "", NilType)]}

\* the hook result of a call on a type without the hook
NoHook == [err |-> NoErr, out |-> Text(<<>>)]

\* the text that TestUnmarshalMap decodes, without its float list corge
MapSample ==
    Text(<<Pair("bar", <<"o", "n", "e">>), Pair("baz", <<"2">>),
           Pair("qux", <<"t", "h", "r", "e", "e">>), Pair("qux", <<"4">>)>>)

\* the texts decoded into a map, and the maps decoded into
MapTexts ==
    {Malformed, MapSample}
    \cup {Text(ps) : ps \in SeqsUpTo({Pair(k, v) : k \in {"bar", "baz", "qux"},
                                                  v \in {<<"2">>, <<"a">>}}, MaxPairs)}

EmptyMap == [k \in KeySet |-> NoMapEntry]

MapTargets == {EmptyMap, [EmptyMap EXCEPT !["baz"] = MapEntry(IntV("int", 2))]}

(***************************************************************************)
(* The calls of a program that uses the codec from a single goroutine.     *)
(* call records the call that has just returned: its operation (op), the   *)
(* record type, the value or target passed (v), the input text (data),     *)
(* what the type's hook                                                    *)
(* returned (hook), and the results: status and error, the output text     *)
(* (out), the target afterwards (after), and for a round trip the status   *)
(* and error of its Unmarshal (ustatus, uerr).                             *)
(***************************************************************************)
CallRecord(op, type, v, data, hook, status, err, out, after, ustatus, uerr) ==
    [op |-> op, type |-> type, v |-> v, data |-> data, hook |-> hook,
     status |-> status, err |-> err, out |-> out, after |-> after,
     ustatus |-> ustatus, uerr |-> uerr]

NoCall ==
    CallRecord("none", "", EmptyMap, Text(<<>>), NoHook, "ok", NoErr, Text(<<>>),
               EmptyMap, "ok", NoErr)

Procs == 0..MaxProc

\* a goroutine's copy of t2f.lock: the read locks and the write lock held on it
Unlocked == [readers |-> 0, writer |-> FALSE]

\* what getStructFields has returned to a goroutine: nothing yet
NoRet == [status |-> "none", km |-> <<>>, err |-> NoErr]

CacheSize(cache) == Cardinality({t \in StructNames : cache[t].present})

Init ==
    /\ types = EmptyCache
    /\ call = NoCall
    /\ pc = [p \in Procs |-> "idle"]
    /\ own = [p \in Procs |-> Unlocked]
    /\ km = [p \in Procs |-> <<>>]
    /\ arg = [p \in Procs |-> ""]
    /\ ret = [p \in Procs |-> NoRet]
    /\ mapbusy = {}

\* urlenc.Marshal(v) for a record v of type t
MarshalCall ==
    /\ call = NoCall
    /\ \E t \in StructNames :
         \E v \in RecordValues[t] :
           \E hook \in IF t \in Marshalers THEN MarshalHooks ELSE {NoHook} :
             \E r \in {Marshal(types, t, v, hook)} :
               /\ CacheSize(r.types) <= MaxTypes
               /\ types' = r.types
               /\ call' = CallRecord("Marshal", t, v, Text(<<>>), hook, r.status, r.err,
                                     r.out, r.rv, "ok", NoErr)
    /\ UNCHANGED <<pc, own, km, arg, ret, mapbusy>>

\* urlenc.Unmarshal(data, &v) for a record v of type t
UnmarshalCall ==
    /\ call = NoCall
    /\ \E t \in StructNames :
         \E v \in Targets(t) :
           \E data \in Texts[t] :
             \E hook \in IF t \in Unmarshalers THEN UnmarshalHooks ELSE {[err |-> NoErr]} :
               \E r \in {Unmarshal(types, t, data, v, hook)} :
                 /\ CacheSize(r.types) <= MaxTypes
                 /\ types' = r.types
                 /\ call' = CallRecord("Unmarshal", t, v, data,
                                       [err |-> hook.err, out |-> Text(<<>>)],
                                       r.status, r.err, r.out, r.rv, "ok", NoErr)
    /\ UNCHANGED <<pc, own, km, arg, ret, mapbusy>>

\* buf, err := urlenc.Marshal(v), and when that succeeds
\* urlenc.Unmarshal(buf, &v2) for a fresh v2 of the type of v
RoundTripCall ==
    /\ call = NoCall
    /\ \E t \in StructNames \ (Marshalers \cup Unmarshalers) :
         \E v \in RecordValues[t] :
           \E m \in {Marshal(types, t, v, NoHook)} :
             \E u \in {Unmarshal(m.types, t, m.out, ZeroRecord(t), NoHook)} :
               /\ CacheSize(m.types) <= MaxTypes
               /\ types' = m.types
               /\ call' = IF m.status = "ok"
                          THEN CallRecord("RoundTrip", t, v, m.out, NoHook, m.status, m.err,
                                          m.out, u.rv, u.status, u.err)
                          ELSE CallRecord("RoundTrip", t, v, m.out, NoHook, m.status, m.err,
                                          m.out, ZeroRecord(t), "none", NoErr)
    /\ UNCHANGED <<pc, own, km, arg, ret, mapbusy>>

\* urlenc.Unmarshal(data, &m) for a map[string]interface{} m
UnmarshalMapCall ==
    /\ call = NoCall
    /\ \E m \in MapTargets :
         \E data \in MapTexts :
           \E r \in {unmarshalMap(data, m)} :
             call' = CallRecord("UnmarshalMap", "map", m, data, NoHook, r.status, r.err,
                                Text(<<>>), r.rv, "ok", NoErr)
    /\ UNCHANGED <<types, pc, own, km, arg, ret, mapbusy>>

\* the caller has taken the results of its call and goes on to its next call
Proceed ==
    /\ call # NoCall
    /\ call' = NoCall
    /\ UNCHANGED <<types, pc, own, km, arg, ret, mapbusy>>

Next == MarshalCall \/ UnmarshalCall \/ RoundTripCall \/ UnmarshalMapCall \/ Proceed

Spec == Init /\ [][Next]_vars

(***************************************************************************)
(* The calls of a program that uses the codec from several goroutines.     *)
(* Every Marshal and every Unmarshal of a record starts with               *)
(* t2f.getStructFields (marshalStruct, unmarshalStruct); the goroutines    *)
(* interleave at its statements.  The receiver of getStructFields is a     *)
(* value, so every call works on own[p], its copy of t2f.lock, while the   *)
(* map types is shared by the copies.  A map read or write that overlaps a *)
(* write of another goroutine is a data race: the runtime may stop the     *)
(* program with a fatal error, the read may miss an entry, or the access   *)
(* may go through.                                                         *)
(***************************************************************************)
\* the record types that the goroutines encode and decode
ConcTypes == {"ZeroInt", "FooJ", "Bad"}

Returned(status, fields, err) == [status |-> status, km |-> fields, err |-> err]

FatalReadWrite ==
    Returned("fatal", <<>>, Err("fatal error: concurrent map read and map write", "", NilType))

FatalWrites == Returned("fatal", <<>>, Err("fatal error: concurrent map writes", "", NilType))

\* the runtime stops the program: no goroutine takes another step
Dead == [p \in Procs |-> "dead"]

\* a call enters getStructFields: the receiver is copied, the lock with it
Enter(p) ==
    /\ pc[p] = "idle"
    /\ \E t \in ConcTypes : arg' = [arg EXCEPT ![p] = t]
    /\ own' = [own EXCEPT ![p] = Unlocked]
    /\ km' = [km EXCEPT ![p] = <<>>]
    /\ ret' = [ret EXCEPT ![p] = NoRet]
    /\ pc' = [pc EXCEPT ![p] = "rlock"]
    /\ UNCHANGED <<types, call, mapbusy>>

\* tkm.lock.RLock()
RLock(p) ==
    /\ pc[p] = "rlock"
    /\ ~own[p].writer
    /\ own' = [own EXCEPT ![p].readers = @ + 1]
    /\ pc' = [pc EXCEPT ![p] = "lookup"]
    /\ UNCHANGED <<types, call, km, arg, ret, mapbusy>>

\* km, ok := tkm.types[t] begins
LookupBegin(p) ==
    /\ pc[p] = "lookup"
    /\ pc' = [pc EXCEPT ![p] = "reading"]
    /\ UNCHANGED <<types, call, own, km, arg, ret, mapbusy>>

\* the map read begins while another goroutine writes the map
LookupFatal(p) ==
    /\ pc[p] = "lookup"
    /\ mapbusy # {}
    /\ ret' = [ret EXCEPT ![p] = FatalReadWrite]
    /\ pc' = Dead
    /\ UNCHANGED <<types, call, own, km, arg, mapbusy>>

\* km, ok := tkm.types[t] ends: ok
LookupHit(p) ==
    /\ pc[p] = "reading"
    /\ types[arg[p]].present
    /\ km' = [km EXCEPT ![p] = types[arg[p]].km]
    /\ pc' = [pc EXCEPT ![p] = "hit"]
    /\ UNCHANGED <<types, call, own, arg, ret, mapbusy>>

\* km, ok := tkm.types[t] ends: not ok, the entry being absent or missed by a
\* read that overlaps a write
LookupMiss(p) ==
    /\ pc[p] = "reading"
    /\ ~types[arg[p]].present \/ mapbusy # {}
    /\ pc' = [pc EXCEPT ![p] = "build"]
    /\ UNCHANGED <<types, call, own, km, arg, ret, mapbusy>>

\* tkm.lock.RUnlock(); return km, nil
ReturnHit(p) ==
    /\ pc[p] = "hit"
    /\ own' = [own EXCEPT ![p].readers = @ - 1]
    /\ ret' = [ret EXCEPT ![p] = Returned("ok", km[p], NoErr)]
    /\ pc' = [pc EXCEPT ![p] = "idle"]
    /\ UNCHANGED <<types, call, km, arg, mapbusy>>

\* the loop over the fields of t builds km
Build(p) ==
    /\ pc[p] = "build"
    /\ BuildSchema(arg[p]).status = "ok"
    /\ km' = [km EXCEPT ![p] = BuildSchema(arg[p]).km]
    /\ pc' = [pc EXCEPT ![p] = "runlock"]
    /\ UNCHANGED <<types, call, own, arg, ret, mapbusy>>

\* the loop over the fields of t returns from inside: the read lock stays held
BuildFail(p) ==
    /\ pc[p] = "build"
    /\ BuildSchema(arg[p]).status # "ok"
    /\ ret' = [ret EXCEPT ![p] = Returned(BuildSchema(arg[p]).status, <<>>,
                                          BuildSchema(arg[p]).err)]
    /\ pc' = [pc EXCEPT ![p] = "idle"]
    /\ UNCHANGED <<types, call, own, km, arg, mapbusy>>

\* tkm.lock.RUnlock()
RUnlock(p) ==
    /\ pc[p] = "runlock"
    /\ own' = [own EXCEPT ![p].readers = @ - 1]
    /\ pc' = [pc EXCEPT ![p] = "lock"]
    /\ UNCHANGED <<types, call, km, arg, ret, mapbusy>>

\* tkm.lock.Lock()
Lock(p) ==
    /\ pc[p] = "lock"
    /\ own[p] = Unlocked
    /\ own' = [own EXCEPT ![p].writer = TRUE]
    /\ pc' = [pc EXCEPT ![p] = "insert"]
    /\ UNCHANGED <<types, call, km, arg, ret, mapbusy>>

\* tkm.types[t] = km begins
InsertBegin(p) ==
    /\ pc[p] = "insert"
    /\ mapbusy' = mapbusy \cup {p}
    /\ pc' = [pc EXCEPT ![p] = "inserting"]
    /\ UNCHANGED <<types, call, own, km, arg, ret>>

\* the map write begins while another goroutine writes the map
InsertFatal(p) ==
    /\ pc[p] = "insert"
    /\ mapbusy # {}
    /\ ret' = [ret EXCEPT ![p] = FatalWrites]
    /\ pc' = Dead
    /\ UNCHANGED <<types, call, own, km, arg, mapbusy>>

\* tkm.types[t] = km ends
InsertEnd(p) ==
    /\ pc[p] = "inserting"
    /\ types' = [types EXCEPT ![arg[p]] = Entry(km[p])]
    /\ mapbusy' = mapbusy \ {p}
    /\ pc' = [pc EXCEPT ![p] = "unlock"]
    /\ UNCHANGED <<call, own, km, arg, ret>>

\* return km, nil, and the deferred tkm.lock.Unlock()
ReturnInserted(p) ==
    /\ pc[p] = "unlock"
    /\ own' = [own EXCEPT ![p].writer = FALSE]
    /\ ret' = [ret EXCEPT ![p] = Returned("ok", km[p], NoErr)]
    /\ pc' = [pc EXCEPT ![p] = "idle"]
    /\ UNCHANGED <<types, call, km, arg, mapbusy>>

NextConc ==
    \E p \in Procs :
      \/ Enter(p)
      \/ RLock(p)
      \/ LookupBegin(p)
      \/ LookupFatal(p)
      \/ LookupHit(p)
      \/ LookupMiss(p)
      \/ ReturnHit(p)
      \/ Build(p)
      \/ BuildFail(p)
      \/ RUnlock(p)
      \/ Lock(p)
      \/ InsertBegin(p)
      \/ InsertFatal(p)
      \/ InsertEnd(p)
      \/ ReturnInserted(p)

SpecConc == Init /\ [][NextConc]_vars

(***************************************************************************)
(* Vocabulary of the properties.                                           *)
(***************************************************************************)
\* the schema of a record type, and whether its construction succeeds
SchemaOf(name) == BuildSchema(name).km

HasSchema(name) == BuildSchema(name).status = "ok"

SchemaIndex(name) == 1..Len(SchemaOf(name))

\* the values of key k in a text, in the order of their occurrences
Occurrences(data, k) ==
    LET isK(p) == p.key = k
        occ == SelectSeq(data.pairs, isK)
    IN  [i \in 1..Len(occ) |-> occ[i].val]

\* whether a text contains key k
HasKey(data, k) == \E i \in 1..Len(data.pairs) : data.pairs[i].key = k

\* every declared field of the type is a scalar or a list of scalars, and the
\* schema construction succeeds
SchemaCompatible(name) ==
    /\ HasSchema(name)
    /\ \A n \in FieldNames(name) : isSupportedType(FieldType(name, n), TRUE)

\* no field of the record is left out of the text as an omitempty zero value
NoFieldOmitted(name, v) ==
    \A i \in SchemaIndex(name) :
      LET f == SchemaOf(name)[i]
      IN  ~(f.OmitEmpty /\ v[f.FieldName] = Zero(FieldType(name, f.FieldName)))

\* the exposed keys of the schema are pairwise distinct
DistinctKeys(name) ==
    \A i, j \in SchemaIndex(name) :
      i # j => SchemaOf(name)[i].KeyName # SchemaOf(name)[j].KeyName

\* the key of schema field i is the key of no other field of the schema
OwnKey(name, i) ==
    \A j \in SchemaIndex(name) :
      j # i => SchemaOf(name)[j].KeyName # SchemaOf(name)[i].KeyName

\* the fields of the record type that are in its schema
SchemaFieldNames(name) == {SchemaOf(name)[i].FieldName : i \in SchemaIndex(name)}

\* an empty list that is not nil reads back as the nil list
NilIfEmpty(fv) == IF fv.k = "slice" /\ fv.elems = <<>> THEN NilSlice(fv.et) ELSE fv

C2_OmitEmptyAsStated ==
    (call.op = "Marshal" /\ call.status = "ok" /\ HasSchema(call.type)
                         /\ call.type \notin Marshalers)
    => \A i \in SchemaIndex(call.type) :
         LET f == SchemaOf(call.type)[i]
             fv == call.v[f.FieldName]
         IN  (f.OmitEmpty /\ OwnKey(call.type, i))
             => HasKey(call.out, f.KeyName) = (fv # Zero(FieldType(call.type, f.FieldName)))

\* C2 as amended: for a field annotated omitempty (whose key is the key of no
\* other field), the text of Marshal contains no key for the field when the
\* field holds its zero value or an empty list, and contains its key when the
\* field holds a non-zero scalar, a non-zero wrapper of a scalar or a list that
\* is not empty.
C2_OmitEmpty ==
    (call.op = "Marshal" /\ call.status = "ok" /\ HasSchema(call.type)
                         /\ call.type \notin Marshalers)
    => \A i \in SchemaIndex(call.type) :
         LET f == SchemaOf(call.type)[i]
             fv == call.v[f.FieldName]
         IN  (f.OmitEmpty /\ OwnKey(call.type, i))
             => HasKey(call.out, f.KeyName)
                  = IF fv.k = "slice" THEN fv.elems # <<>>
                    ELSE fv # Zero(FieldType(call.type, f.FieldName))

\* Marshal of a record whose omitempty fields hold a zero scalar and a list
\* that is not empty
C2_Witness ==
    /\ call.op = "Marshal"
    /\ call.type = "Numbers"
    /\ call.status = "ok"
    /\ call.v["U"] = IntV("uint8", 0)
    /\ call.v["L"].elems # <<>>
    /\ ~HasKey(call.out, "u")
    /\ HasKey(call.out, "l")

(***************************************************************************)
(* C3.  Decoding into a map.                                               *)
(***************************************************************************)
\* the texts of the occurrences of key k in the input, as a list of strings
StringList(vals) == SliceV(T("string"), FALSE, [i \in 1..Len(vals) |-> StrV(vals[i])])

\* C3: a successful Unmarshal into a map stores, for every key of the input,
\* the single text when the key occurs once and the ordered list of the texts
\* when it occurs more than once, never a number or a boolean, and leaves the
\* entries of the other keys as they were.
C3_MapDecode ==
    (call.op = "UnmarshalMap" /\ call.status = "ok")
    => \A k \in KeySet :
         LET occ == Occurrences(call.data, k)
         IN  /\ Len(occ) = 0 => call.after[k] = call.v[k]
             /\ Len(occ) = 1 => call.after[k] = MapEntry(StrV(occ[1]))
             /\ Len(occ) > 1 => call.after[k] = MapEntry(StringList(occ))
             /\ Len(occ) > 0 => call.after[k].v.k \in {"string", "slice"}

\* the text of TestUnmarshalMap decoded into a map that held a number for baz
C3_Witness ==
    /\ call.op = "UnmarshalMap"
    /\ call.status = "ok"
    /\ call.data = MapSample
    /\ call.v["baz"] = MapEntry(IntV("int", 2))
    /\ call.after["baz"] = MapEntry(StrV(<<"2">>))
    /\ call.after["qux"] = MapEntry(StringList(<<<<"t", "h", "r", "e", "e">>, <<"4">>>>))

(***************************************************************************)
(* C4.  Lists keep the order of the input.                                 *)
(***************************************************************************)
\* C4: a successful Unmarshal into a record sets every list field whose key
\* occurs in the input to a new list with one element per occurrence of the
\* key, in the order of the occurrences, each converted to the element kind.
C4_ListOrder ==
    (call.op = "Unmarshal" /\ call.status = "ok" /\ HasSchema(call.type)
                           /\ call.type \notin Unmarshalers)
    => \A i \in SchemaIndex(call.type) :
         LET f == SchemaOf(call.type)[i]
             occ == Occurrences(call.data, f.KeyName)
             got == call.after[f.FieldName]
         IN  (Kind(f.Type) = "slice" /\ got.k = "slice" /\ Len(occ) > 0)
             => /\ ~got.isnil
                /\ Len(got.elems) = Len(occ)
                /\ \A j \in 1..Len(occ) :
                     /\ convertFromString(Kind(Elem(f.Type)), occ[j]).err = NoErr
                     /\ got.elems[j] = convertFromString(Kind(Elem(f.Type)), occ[j]).v

\* a list field decoded from two occurrences of its key with distinct values
C4_Witness ==
    /\ call.op = "Unmarshal"
    /\ call.status = "ok"
    /\ call.type = "RackStylePayload"
    /\ call.data = Text(<<Pair("names[]", <<"a">>), Pair("names[]", <<"7">>)>>)
    /\ call.v = DirtyRecord("RackStylePayload")
    /\ call.after["Names"] = StringList(<<<<"a">>, <<"7">>>>)

(***************************************************************************)
(* C6.  Marshaler and Unmarshaler take the call over.                      *)
(***************************************************************************)
\* C6: a Marshal of a value whose type implements MarshalURL returns what the
\* method returns, an Unmarshal into a target whose type implements
\* UnmarshalURL returns what that method returns, and neither call changes the
\* schema cache, whatever the cache holds and whatever the fields of the type.
C6_OverrideStep ==
    /\ (call'.op = "Marshal" /\ call.op = "none" /\ call'.type \in Marshalers)
       => /\ call'.err = call'.hook.err
          /\ call'.out = call'.hook.out
          /\ call'.status = (IF call'.hook.err = NoErr THEN "ok" ELSE "error")
          /\ types' = types
    /\ (call'.op = "Unmarshal" /\ call.op = "none" /\ call'.type \in Unmarshalers)
       => /\ call'.err = call'.hook.err
          /\ call'.status = (IF call'.hook.err = NoErr THEN "ok" ELSE "error")
          /\ call'.after = call'.v
          /\ types' = types

C6_Override == [][C6_OverrideStep]_vars

\* a Marshal of a type with an unsupported field that returns the text of its
\* MarshalURL, the cache holding no schema for the type
C6_Witness ==
    /\ call.op = "Marshal"
    /\ call.type = "Custom"
    /\ ~HasSchema("Custom")
    /\ call.status = "ok"
    /\ call.out = Text(<<Pair("zz", <<"a">>)>>)
    /\ ~types["Custom"].present

(***************************************************************************)
(* C7.  Wrapper fields.                                                    *)
(***************************************************************************)
\* the record of plain strings that holds the texts of a record of wrappers
PlainOf(v) == [n \in DOMAIN v |-> StrV(v[n].String)]

\* the text Marshal makes of the record of plain strings with the annotations
\* of Wrapped
PlainText(v) == marshalStruct(EmptyCache, "Unwrapped", PlainOf(v)).out

\* a wrapper that is not its zero value and holds the empty text
ValidEmpty(fv) == fv.Valid /\ fv.String = <<>>

C8_Booleans ==
    /\ (call.op = "Unmarshal" /\ call.type = "Foo" /\ call.data = FooText
                              /\ call.v = ZeroRecord("Foo"))
       => /\ call.status = "ok"
          /\ call.after["Grault"] = BoolV(TRUE)
          /\ call.after["Garply"] = SliceV(T("bool"), FALSE, <<BoolV(TRUE), BoolV(FALSE)>>)
    /\ (call.op = "Marshal" /\ call.type = "Foo" /\ call.v["Grault"] = BoolV(FALSE))
       => /\ call.status = "ok"
          /\ Occurrences(call.out, "grault") = <<FalseText>>

(***************************************************************************)
(* C10.  The key of a field without a name in its annotation.              *)
(***************************************************************************)
\* the field has no annotation, or an annotation of urlenc or json whose name
\* segment is empty
NameSegmentEmpty(f) ==
    \/ f.Tag = <<>>
    \/ /\ FindTagName(f.Tag) # ""
       /\ TrimSpace(TagGet(f.Tag, FindTagName(f.Tag))[1]) = ""

\* the declared fields of a record type that are exported and have no name in
\* their annotation
Unnamed(name) ==
    {i \in 1..Len(StructFields(name)) :
        StructFields(name)[i].PkgPath = "" /\ NameSegmentEmpty(StructFields(name)[i])}

\* C10 as stated: the exposed key of a schema field is the name of the field
\* when the field has no annotation or an annotation whose name segment is
\* empty; Marshal emits the field under its name and Unmarshal reads it from
\* its name.
C10_DefaultKey ==
    /\ \A t \in StructNames :
         types[t].present
         => \A i \in 1..Len(types[t].km) :
              (\E j \in Unnamed(t) : StructFields(t)[j].Name = types[t].km[i].FieldName)
              => types[t].km[i].KeyName = types[t].km[i].FieldName
    /\ (call.op = "Marshal" /\ call.status = "ok" /\ call.type \notin Marshalers)
       => \A j \in Unnamed(call.type) :
            LET f == StructFields(call.type)[j]
            IN  call.v[f.Name] # Zero(f.Type) => HasKey(call.out, f.Name)
    /\ (call.op = "Unmarshal" /\ call.status = "ok" /\ call.type \notin Unmarshalers)
       => \A j \in Unnamed(call.type) :
            LET f == StructFields(call.type)[j]
            IN  (f.Type = T("string") /\ HasKey(call.data, f.Name))
                => call.after[f.Name] = StrV(Occurrences(call.data, f.Name)[1])

(***************************************************************************)
(* C5.  A type with an unsupported field.                                  *)
(***************************************************************************)
\* the error of the schema construction of Bad
BadError == Err("urlenc: unsupported type on struct field", "In", T("Inner"))

\* C5 as stated: every call on a record of a type with an included field that
\* is neither a scalar nor a list of scalars returns the error of the schema
\* construction, whatever calls came before or run at the same time, and the
\* cache never holds an entry for the type.
C5_SameError ==
    /\ ~types["Bad"].present
    /\ \A p \in Procs :
         (arg[p] = "Bad" /\ ret[p] # NoRet) => ret[p] = Returned("error", <<>>, BadError)

(***************************************************************************)
(* C9.  The insert into the cache.                                         *)
(***************************************************************************)
\* C9 as stated: while a goroutine writes an entry of the cache, no other
\* goroutine writes the cache and no other goroutine reads it.
C9_ExclusiveInsert ==
    \A p, q \in Procs :
      (p # q /\ pc[p] = "inserting") => pc[q] \notin {"inserting", "reading"}

(***************************************************************************)
(* C11.  Fields without urlenc and without json in their tag.              *)
(***************************************************************************)
\* the declared fields of a record type that are exported and carry neither a
\* urlenc nor a json annotation
Unrecognized(name) ==
    {i \in 1..Len(StructFields(name)) :
        StructFields(name)[i].PkgPath = "" /\ FindTagName(StructFields(name)[i].Tag) = ""}

\* the key the schema gives to a field without urlenc and json: the name of
\* the field when it has no tag at all, the empty key when its tag only has
\* other vocabularies
UnrecognizedKey(f) == IF f.Tag = <<>> THEN f.Name ELSE ""

UnknownPretendType(name) ==
    \E i \in 1..Len(StructFields(name)) :
      /\ StructFields(name)[i].PkgPath = ""
      /\ ~ParseTag(StructFields(name)[i]).skip
      /\ ParseTag(StructFields(name)[i]).fieldtype = NilType

\* C12 as stated: Marshal and Unmarshal on a record type with a field whose
\* annotation names an unrecognized pretend-type return a schema error to the
\* caller; the call does not crash and no schema is built for the type.
C12_UnknownTypeError ==
    /\ \A t \in StructNames : UnknownPretendType(t) => ~types[t].present
    /\ (call.op \in {"Marshal", "Unmarshal"} /\ UnknownPretendType(call.type)
          /\ call.type \notin Marshalers \cup Unmarshalers)
       => /\ call.status = "error"
          /\ call.err # NoErr

(***************************************************************************)
(* C13.  Fields whose key the input does not have.                         *)
(***************************************************************************)
\* no schema field that stands for the declared field n has its key in the
\* input text
KeyAbsent(name, n, data) ==
    \A i \in SchemaIndex(name) :
      SchemaOf(name)[i].FieldName = n => ~HasKey(data, SchemaOf(name)[i].KeyName)

\* C13: an Unmarshal into a record, whatever the record held before the call
\* and whether or not the call succeeds, leaves every field whose exposed key
\* is absent from the input text with the value it had before the call.
C13_Frame ==
    (call.op = "Unmarshal" /\ call.type \notin Unmarshalers)
    => \A n \in FieldNames(call.type) :
         KeyAbsent(call.type, n, call.data) => call.after[n] = call.v[n]

\* an Unmarshal into a record none of whose fields is zero, of a text that has
\* the key of one field only
C13_Witness ==
    /\ call.op = "Unmarshal"
    /\ call.type = "Numbers"
    /\ call.status = "ok"
    /\ call.v = DirtyRecord("Numbers")
    /\ call.data = Text(<<Pair("u", <<"7">>)>>)
    /\ call.after["U"] = IntV("uint8", 7)
    /\ call.after["U"] # call.v["U"]
    /\ call.after["N"] = call.v["N"]
    /\ call.after["N"] # Zero(T("int8"))
    /\ call.after["L"] = call.v["L"]
    /\ call.after["L"] # NilSlice(T("int8"))

(***************************************************************************)
(* C14.  The locks of a call that has returned.                            *)
(***************************************************************************)
\* C14 as stated: a call of getStructFields that has returned, by a cache hit,
\* after the insert of a schema it built or with the error of an unsupported
\* field type, holds no read lock and no write lock that it acquired.
C14_LocksReleased ==
    \A p \in Procs : (pc[p] = "idle" /\ ret[p] # NoRet) => own[p] = Unlocked

====
